---------------------------- MODULE Spec2Model ----------------------------
(***************************************************************************)
(* geek_history_tui: an interactive, zoomable timeline drawn on a canvas.  *)
(*                                                                         *)
(*   src/unnamed/part_000  (timeline.js)   scale, layout, render, viewport *)
(*   src/interaction.js                    keyboard and pointer handlers   *)
(*   src/main.js                           start-up                        *)
(*                                                                         *)
(* Every coordinate of the program is a JavaScript Number, an IEEE-754     *)
(* binary64 value.  A Number is modelled exactly: as a sign and a          *)
(* magnitude counted in units of 2^-55 pixel, the magnitude written in     *)
(* five limbs of 15 bits (least significant first), and every arithmetic   *)
(* operation rounds its exact result to 53 significant bits, ties to even, *)
(* as the hardware does.  All magnitudes of the model are below 2^19 px    *)
(* and are multiples of 2^-55 px, so neither overflow nor underflow of the *)
(* format is ever involved.                                                *)
(***************************************************************************)
EXTENDS Integers, Sequences, FiniteSets, TLC

(***************************************************************************)
(* JavaScript Number arithmetic                                            *)
(***************************************************************************)
LimbBits == 15
FracBits == 55
MantissaBits == 53
LimbBase == 2^LimbBits

MagZero == <<0, 0, 0, 0, 0>>

\* carry (or borrow) propagation over five limbs; the top limb keeps the rest
MagNorm(r) ==
    LET t2 == r[2] + (r[1] \div LimbBase)
        t3 == r[3] + (t2 \div LimbBase)
        t4 == r[4] + (t3 \div LimbBase)
        t5 == r[5] + (t4 \div LimbBase)
    IN  <<r[1] % LimbBase, t2 % LimbBase, t3 % LimbBase, t4 % LimbBase, t5>>

MagAdd(a, b) == MagNorm(<<a[1] + b[1], a[2] + b[2], a[3] + b[3], a[4] + b[4], a[5] + b[5]>>)

\* a - b for a >= b
MagSub(a, b) == MagNorm(<<a[1] - b[1], a[2] - b[2], a[3] - b[3], a[4] - b[4], a[5] - b[5]>>)

MagMulSmall(a, d) == MagNorm(<<a[1] * d, a[2] * d, a[3] * d, a[4] * d, a[5] * d>>)

MagHalf(a) ==
    <<(a[1] \div 2) + (a[2] % 2) * (LimbBase \div 2),
      (a[2] \div 2) + (a[3] % 2) * (LimbBase \div 2),
      (a[3] \div 2) + (a[4] % 2) * (LimbBase \div 2),
      (a[4] \div 2) + (a[5] % 2) * (LimbBase \div 2),
      a[5] \div 2>>

MagLt(a, b) ==
    IF a[5] # b[5] THEN a[5] < b[5]
    ELSE IF a[4] # b[4] THEN a[4] < b[4]
    ELSE IF a[3] # b[3] THEN a[3] < b[3]
    ELSE IF a[2] # b[2] THEN a[2] < b[2]
    ELSE a[1] < b[1]

RECURSIVE IntBitLen(_)
\* the number of significant bits of v >= 0
IntBitLen(v) == IF v = 0 THEN 0 ELSE 1 + IntBitLen(v \div 2)

MagBitLen(a) ==
    IF a[5] # 0 THEN 4 * LimbBits + IntBitLen(a[5])
    ELSE IF a[4] # 0 THEN 3 * LimbBits + IntBitLen(a[4])
    ELSE IF a[3] # 0 THEN 2 * LimbBits + IntBitLen(a[3])
    ELSE IF a[2] # 0 THEN LimbBits + IntBitLen(a[2])
    ELSE IntBitLen(a[1])

MagBit(a, p) == (a[(p \div LimbBits) + 1] \div 2^(p % LimbBits)) % 2

\* a with its k lowest bits rounded away, to nearest, ties to even
RoundBits(a, k) ==
    IF k <= 0 THEN a
    ELSE LET q  == k \div LimbBits
             r  == k % LimbBits
             gq == (k - 1) \div LimbBits
             gr == (k - 1) % LimbBits
             Keep(i) == IF i <= q THEN 0
                        ELSE IF i = q + 1 THEN a[i] - (a[i] % 2^r)
                        ELSE a[i]
             Ulp(i)  == IF i = q + 1 THEN 2^r ELSE 0
             trunc  == <<Keep(1), Keep(2), Keep(3), Keep(4), Keep(5)>>
             guard  == MagBit(a, k - 1) = 1
             sticky == (\E i \in 1..gq : a[i] # 0) \/ (a[gq + 1] % 2^gr) # 0
             odd    == MagBit(a, k) = 1
         IN  IF guard /\ (sticky \/ odd)
             THEN MagAdd(trunc, <<Ulp(1), Ulp(2), Ulp(3), Ulp(4), Ulp(5)>>)
             ELSE trunc

\* round a magnitude to 53 significant bits, to nearest, ties to even
Round53(a) == RoundBits(a, MagBitLen(a) - MantissaBits)

MkNum(s, m) == [s |-> IF m = MagZero THEN 1 ELSE s, m |-> m]

\* the Number of an integer i, |i| < 2^19
NumOfInt(i) ==
    LET v == (IF i < 0 THEN -i ELSE i) * 2^(FracBits - 3 * LimbBits)
    IN  MkNum(IF i < 0 THEN -1 ELSE 1, <<0, 0, 0, v % LimbBase, v \div LimbBase>>)

NumZero == NumOfInt(0)

NumNeg(x) == MkNum(-x.s, x.m)

\* x + y as a real number (no rounding)
ExactSum(x, y) ==
    IF x.s = y.s THEN MkNum(x.s, MagAdd(x.m, y.m))
    ELSE IF MagLt(x.m, y.m) THEN MkNum(y.s, MagSub(y.m, x.m))
    ELSE MkNum(x.s, MagSub(x.m, y.m))

\* the Number nearest to the real number x
RoundNum(x) == MkNum(x.s, Round53(x.m))

\* x + y
NumAdd(x, y) == RoundNum(ExactSum(x, y))

\* x - y
NumSub(x, y) == NumAdd(x, NumNeg(y))

\* d * x for an integer-valued d, |d| < 2^15
NumMulInt(d, x) ==
    MkNum(IF d < 0 THEN -x.s ELSE x.s,
          Round53(MagMulSmall(x.m, IF d < 0 THEN -d ELSE d)))

\* x / 2 and x * 0.5 (exact)
NumHalf(x) == MkNum(x.s, MagHalf(x.m))

NumLt(x, y) ==
    IF x.s # y.s THEN x.s < y.s
    ELSE IF x.s = 1 THEN MagLt(x.m, y.m) ELSE MagLt(y.m, x.m)

NumLe(x, y) == x = y \/ NumLt(x, y)

NumAbs(x) == MkNum(1, x.m)

\* the Number literals 0.8 and 0.2: 0x1999999999999A * 2^-53 and * 2^-55
Num0p8 == [s |-> 1, m |-> <<26216, 19660, 6553, 819, 0>>]
Num0p2 == [s |-> 1, m |-> <<6554, 13107, 26214, 204, 0>>]


(***************************************************************************)
(* Strings are sequences of one-character strings.                         *)
(***************************************************************************)
Digits == <<"0", "1", "2", "3", "4", "5", "6", "7", "8", "9">>

RECURSIVE NumberToString(_)
\* Number.prototype.toString of a non-negative integer
NumberToString(n) ==
    IF n < 10 THEN <<Digits[n + 1]>>
    ELSE NumberToString(n \div 10) \o <<Digits[(n % 10) + 1]>>

\* String.prototype.substring(from, to), 0-based, end exclusive, clamped
Substring(str, from, to) ==
    LET t == IF to > Len(str) THEN Len(str) ELSE to
        f == IF from > t THEN t ELSE from
    IN  SubSeq(str, f + 1, t)

\* String.prototype.substring(from)
SubstringFrom(str, from) == Substring(str, from, Len(str))

RECURSIVE PadStart(_, _, _)
\* String.prototype.padStart(len, ch)
PadStart(str, len, ch) ==
    IF Len(str) >= len THEN str ELSE PadStart(<<ch>> \o str, len, ch)

Alphabet == <<"a", "b", "c", "d", "e", "f", "g", "h", "i", "j", "k", "l", "m",
              "n", "o", "p", "q", "r", "s", "t", "u", "v", "w", "x", "y", "z">>

CharRank(c) == CHOOSE i \in 1..Len(Alphabet) : Alphabet[i] = c

RECURSIVE LocaleCompare(_, _)
\* String.prototype.localeCompare on titles of lower-case letters
LocaleCompare(a, b) ==
    IF a = <<>> /\ b = <<>> THEN 0
    ELSE IF a = <<>> THEN -1
    ELSE IF b = <<>> THEN 1
    ELSE IF CharRank(Head(a)) < CharRank(Head(b)) THEN -1
    ELSE IF CharRank(Head(a)) > CharRank(Head(b)) THEN 1
    ELSE LocaleCompare(Tail(a), Tail(b))

(***************************************************************************)
(* Dates.  A Date holds a time value; the model counts it in hours since   *)
(* 1970-01-01T00:00Z (every Date of the program is a whole hour: a UTC     *)
(* midnight, or a local midnight in a whole-hour time zone).               *)
(***************************************************************************)
HoursPerDay == 24

\* days since the epoch of the proleptic Gregorian date y-m-d
DaysFromCivil(y, m, d) ==
    LET yy  == IF m <= 2 THEN y - 1 ELSE y
        era == yy \div 400
        yoe == yy - era * 400
        mp  == IF m > 2 THEN m - 3 ELSE m + 9
        doy == ((153 * mp + 2) \div 5) + d - 1
        doe == yoe * 365 + (yoe \div 4) - (yoe \div 100) + doy
    IN  era * 146097 + doe - 719468

\* <<year, month (1..12), day>> of a day number
CivilFromDays(z) ==
    LET zz  == z + 719468
        era == zz \div 146097
        doe == zz - era * 146097
        yoe == (doe - (doe \div 1460) + (doe \div 36524) - (doe \div 146096)) \div 365
        doy == doe - (365 * yoe + (yoe \div 4) - (yoe \div 100))
        mp  == (5 * doy + 2) \div 153
        d   == doy - ((153 * mp + 2) \div 5) + 1
        m   == IF mp < 10 THEN mp + 3 ELSE mp - 9
        y   == yoe + era * 400 + (IF m <= 2 THEN 1 ELSE 0)
    IN  <<y, m, d>>

\* new Date('YYYY-MM-DD'): midnight UTC
DateFromISO(ymd) == DaysFromCivil(ymd[1], ymd[2], ymd[3]) * HoursPerDay

\* new Date(year, monthIndex, day): midnight local time, tz hours east of UTC
DateFromLocal(y, monthIndex, d, tz) ==
    DaysFromCivil(y, monthIndex + 1, d) * HoursPerDay - tz

\* Date.prototype.getFullYear / getMonth (local time)
GetFullYear(t, tz) == CivilFromDays((t + tz) \div HoursPerDay)[1]
GetMonth(t, tz) == CivilFromDays((t + tz) \div HoursPerDay)[2] - 1

(***************************************************************************)
(* The event collection                                                    *)
(***************************************************************************)
Event(id, title, ymd) == [id |-> id, title |-> title, date |-> DateFromISO(ymd)]

DataEmpty == <<>>

DataSingle ==
    <<Event("st_pic", <<"p","i","c","a","r","d">>, <<2020, 1, 23>>)>>

DataPair ==
    <<Event("st_pic", <<"p","i","c","a","r","d">>, <<2020, 1, 23>>),
      Event("st_low", <<"l","o","w","e","r","d","e","c","k","s","x">>, <<2020, 2, 6>>)>>

DataSeries ==
    <<Event("st_pro", <<"p","r","o","d","i","g","y">>, <<2021, 10, 28>>),
      Event("st_pic", <<"p","i","c","a","r","d">>, <<2020, 1, 23>>),
      Event("st_low", <<"l","o","w","e","r","d","e","c","k","s","x">>, <<2020, 8, 6>>)>>

DataTies ==
    <<Event("st_voy", <<"v","o","y">>, <<1995, 1, 1>>),
      Event("st_ds9", <<"d","e","e","p","s","p","a","c","e","n","i","n","e","n","i","n","e">>, <<1995, 1, 1>>),
      Event("st_tng", <<"t","n","g","s">>, <<1995, 1, 30>>)>>

\* the collection that timeline.js ships with
ShippedData ==
    <<Event("st_tng",
            <<"S","t","a","r"," ","T","r","e","k",":"," ","T","h","e"," ","N","e","x","t"," ","G","e","n","e","r","a","t","i","o","n">>,
            <<1987, 9, 28>>),
      Event("st_ds9",
            <<"S","t","a","r"," ","T","r","e","k",":"," ","D","e","e","p"," ","S","p","a","c","e"," ","N","i","n","e">>,
            <<1993, 1, 3>>),
      Event("st_voy",
            <<"S","t","a","r"," ","T","r","e","k",":"," ","V","o","y","a","g","e","r">>,
            <<1995, 1, 16>>),
      Event("st_ent",
            <<"S","t","a","r"," ","T","r","e","k",":"," ","E","n","t","e","r","p","r","i","s","e">>,
            <<2001, 9, 26>>),
      Event("st_dsc",
            <<"S","t","a","r"," ","T","r","e","k",":"," ","D","i","s","c","o","v","e","r","y">>,
            <<2017, 9, 24>>),
      Event("st_pic",
            <<"S","t","a","r"," ","T","r","e","k",":"," ","P","i","c","a","r","d">>,
            <<2020, 1, 23>>),
      Event("st_low",
            <<"S","t","a","r"," ","T","r","e","k",":"," ","L","o","w","e","r"," ","D","e","c","k","s">>,
            <<2020, 8, 6>>),
      Event("st_pro",
            <<"S","t","a","r"," ","T","r","e","k",":"," ","P","r","o","d","i","g","y">>,
            <<2021, 10, 28>>),
      Event("st_snw",
            <<"S","t","a","r"," ","T","r","e","k",":"," ","S","t","r","a","n","g","e"," ","N","e","w"," ","W","o","r","l","d","s">>,
            <<2022, 5, 5>>)>>

\* The hosts of the model: the raw data handed to timeline.js, the time
\* zone of the host (hours east of UTC), and whether it has a pointing
\* device (one without never dispatches mousemove).
Host(data, tz, pointer) == [data |-> data, tz |-> tz, pointer |-> pointer]

Hosts ==
    {Host(DataEmpty, 0, TRUE),
     Host(DataSingle, -5, TRUE),
     Host(DataPair, 0, TRUE),
     Host(DataSeries, 0, FALSE),
     Host(DataTies, 0, FALSE),
     Host(DataTies, -5, FALSE),
     Host(ShippedData, 0, FALSE)}

\* SortCompare with the dates subtracted the other way round
SortCompare_Descending(a, b) ==
    IF a.date # b.date THEN b.date - a.date
    ELSE LocaleCompare(a.title, b.title)

\* the comparator of timelineData.sort
SortCompare(a, b) ==
    IF a.date # b.date THEN a.date - b.date
    ELSE LocaleCompare(a.title, b.title)

RECURSIVE SortInsert(_, _)
\* e placed behind every element that does not compare greater (stable)
SortInsert(sorted, e) ==
    IF sorted = <<>> THEN <<e>>
    ELSE IF SortCompare(Head(sorted), e) <= 0
         THEN <<Head(sorted)>> \o SortInsert(Tail(sorted), e)
         ELSE <<e>> \o sorted

RECURSIVE SortData(_)
\* Array.prototype.sort with SortCompare (a stable sort)
SortData(raw) ==
    IF raw = <<>> THEN <<>>
    ELSE SortInsert(SortData(SubSeq(raw, 1, Len(raw) - 1)), raw[Len(raw)])

(***************************************************************************)
(* Bounds of the model                                                     *)
(***************************************************************************)
\* ArrowUp / ArrowDown are taken while |timelineOffsetX| stays within this
MaxOffset == 200
\* setTimeout hands out the handles 1..MaxTimers
MaxTimers == 2
\* events handled while a hover timeout is pending (within its 100 ms)
MaxEventsPerDebounce == 1
\* window.selectNode is called with the arguments -1..MaxSelectArg
MaxSelectArg == 3

\* window.innerWidth as the host sets it
Widths == {800, 400}
\* pointer positions relative to the canvas, <<mouseX, mouseY>>
PointerPositions == {<<20, 160>>, <<60, 160>>, <<400, 300>>}
Keys == {"ArrowUp", "ArrowDown", "PageUp", "PageDown", "ArrowLeft", "ArrowRight"}

(***************************************************************************)
(* Program constants and state                                             *)
(***************************************************************************)
TILE_SIZE == 10
NODE_HEIGHT == TILE_SIZE * 5
TIMELINE_Y == 200
HIT_HEIGHT == TILE_SIZE * 3

\* JavaScript values that are not plain integers
JsNumber(i) == [t |-> "number", v |-> i]
\* the number i + 0.5
JsFraction(i) == [t |-> "fraction", v |-> i]
Undefined == [t |-> "undefined", v |-> 0]
NaN == [t |-> "NaN", v |-> 0]
Null == "null"
NoTimer == 0

VARIABLES
    timelineData,          \* the sorted event collection
    timezone,              \* hours east of UTC of the host
    pointerDevice,         \* whether the host dispatches mousemove
    innerWidth,            \* window.innerWidth
    canvasWidth,           \* canvas.width
    currentZoomLevel,      \* 1: Month, 2: Year, 3: Decade
    timelineOffsetX,       \* scroll offset, a Number
    selectedNodeIndex,     \* the integer part of selectedNodeIndex (-1: none)
    selectedNodeIndexHalves, \* 1 when selectedNodeIndex is that integer + 0.5, else 0
    timelineNodePositions, \* window.timelineNodePositions, the hit-test table
    dateLabels,            \* the date labels drawn by the last drawTimeline
    hoverDetail,           \* id of the node repainted in detail since then
    hoveredNodeId,         \* interaction.js
    hoverTimeout,          \* interaction.js, the last handle of setTimeout
    timers,                \* pending timeouts: [handle, node]
    nextTimer,             \* the handle the next setTimeout returns
    eventsSinceArm         \* events handled since the pending timeout was set

vars == <<timelineData, timezone, pointerDevice, innerWidth, canvasWidth, currentZoomLevel,
          timelineOffsetX, selectedNodeIndex, selectedNodeIndexHalves,
          timelineNodePositions, dateLabels, hoverDetail, hoveredNodeId, hoverTimeout, timers,
          nextTimer, eventsSinceArm>>

NumEvents == Len(timelineData)

(***************************************************************************)
(* Scale model and layout (timeline.js)                                    *)
(***************************************************************************)
getNodeCharLimit(zoom) ==
    CASE zoom = 1 -> 15
      [] zoom = 2 -> 10
      [] zoom = 3 -> 3
      [] OTHER -> 15

Ellipsis == <<".", ".", ".">>

\* truncateText cutting titles that are exactly limit long as well
truncateText_CutsAtLimit(text, limit) ==
    IF Len(text) >= limit THEN Substring(text, 0, limit) \o Ellipsis ELSE text

truncateText(text, limit) ==
    IF Len(text) > limit THEN Substring(text, 0, limit) \o Ellipsis ELSE text

scaleFactor(zoom) ==
    CASE zoom = 1 -> NumOfInt(3)
      [] zoom = 2 -> Num0p8
      [] zoom = 3 -> Num0p2
      [] OTHER -> NumOfInt(3)

\* Math.ceil(diffTime / one day) of a non-negative whole number of hours
diffDays(diffTime) == (diffTime + HoursPerDay - 1) \div HoursPerDay

getDateX(date, zoom) ==
    LET minDate == timelineData[1].date
        diffTime == IF date >= minDate THEN date - minDate ELSE minDate - date
    IN  NumMulInt(diffDays(diffTime), scaleFactor(zoom))

nodeWidth(title, zoom) ==
    Len(truncateText(title, getNodeCharLimit(zoom))) * TILE_SIZE + TILE_SIZE * 4

\* nodeX of drawTimeline: the screen X of event i (1-based)
ScreenX(i, zoom, off) == NumAdd(getDateX(timelineData[i].date, zoom), off)

\* IsVisible with both bounds included
IsVisible_Closed(nodeX, cw) ==
    /\ NumLe(NumOfInt(-200), nodeX)
    /\ NumLe(nodeX, NumOfInt(cw + 200))

\* the visibility test of drawTimeline
IsVisible(nodeX, cw) ==
    /\ NumLt(NumOfInt(-200), nodeX)
    /\ NumLt(nodeX, NumOfInt(cw + 200))

\* the table entry of event i (1-based) drawn at screen X nodeX
NodePosition(i, nodeX, zoom) ==
    LET node == timelineData[i]
        w == nodeWidth(node.title, zoom)
    IN  [id |-> node.id,
         x |-> NumSub(nodeX, NumHalf(NumOfInt(w))),
         y |-> TIMELINE_Y - NODE_HEIGHT,
         width |-> w,
         height |-> HIT_HEIGHT,
         index |-> i - 1,
         originalTitle |-> node.title]

RECURSIVE processedNodePositions(_, _, _, _)
\* the table built by the forEach of drawTimeline over events 1..n
processedNodePositions(n, zoom, off, cw) ==
    IF n = 0 THEN <<>>
    ELSE LET rest == processedNodePositions(n - 1, zoom, off, cw)
             nodeX == ScreenX(n, zoom, off)
         IN  IF IsVisible(nodeX, cw)
             THEN Append(rest, NodePosition(n, nodeX, zoom))
             ELSE rest

\* dateString, dateKey and dateX of event i
DateLabel(i, zoom, off) ==
    LET date == timelineData[i].date
        year == GetFullYear(date, timezone)
    IN  CASE zoom = 1 ->
               LET str == NumberToString(year) \o <<"-">>
                          \o PadStart(NumberToString(GetMonth(date, timezone) + 1), 2, "0")
               IN  [text |-> str, key |-> str, x |-> ScreenX(i, zoom, off)]
          [] zoom = 2 ->
               LET str == NumberToString(year)
               IN  [text |-> str, key |-> str, x |-> ScreenX(i, zoom, off)]
          [] zoom = 3 ->
               LET str == <<"'">> \o SubstringFrom(NumberToString(year), 2)
               IN  [text |-> str,
                    key |-> Substring(str, 0, 3) \o <<"0">>,
                    x |-> NumAdd(getDateX(DateFromLocal(year - (year % 10), 0, 1, timezone), zoom), off)]

RECURSIVE drawnLabels_NoDedupe(_, _, _)
\* drawnLabels without the drawnDates test
drawnLabels_NoDedupe(n, zoom, off) ==
    IF n = 0 THEN <<>>
    ELSE Append(drawnLabels_NoDedupe(n - 1, zoom, off), DateLabel(n, zoom, off))

RECURSIVE drawnLabels(_, _, _)
\* the labels drawn by the forEach of drawTimeline over events 1..n:
\* one per dateKey not yet in drawnDates
drawnLabels(n, zoom, off) ==
    IF n = 0 THEN <<>>
    ELSE LET rest == drawnLabels(n - 1, zoom, off)
             lab == DateLabel(n, zoom, off)
         IN  IF \E j \in 1..Len(rest) : rest[j].key = lab.key
             THEN rest
             ELSE Append(rest, lab)

\* drawTimeline: a full render under the given viewport
drawTimeline(zoom, off, cw) ==
    /\ timelineNodePositions' = processedNodePositions(NumEvents, zoom, off, cw)
    /\ dateLabels' = drawnLabels(NumEvents, zoom, off)
    /\ hoverDetail' = Null

(***************************************************************************)
(* Viewport controller (timeline.js)                                       *)
(***************************************************************************)
\* the render every viewport operation ends with, under the new viewport
Redraw == drawTimeline(currentZoomLevel', timelineOffsetX', canvasWidth')

\* scrollTimeline with the delta subtracted
scrollTimeline_Subtracts(deltaX) ==
    /\ timelineOffsetX' = NumSub(timelineOffsetX, deltaX)
    /\ UNCHANGED <<currentZoomLevel, canvasWidth, innerWidth>>
    /\ Redraw

scrollTimeline(deltaX) ==
    /\ timelineOffsetX' = NumAdd(timelineOffsetX, deltaX)
    /\ UNCHANGED <<currentZoomLevel, canvasWidth, innerWidth>>
    /\ Redraw

\* zoomClamp wrapping around at both ends
zoomClamp_Wraps(level) ==
    IF level < 1 THEN 3 ELSE IF level > 3 THEN 1 ELSE level

zoomClamp(level) ==
    LET low == IF level < 1 THEN 1 ELSE level
    IN  IF low > 3 THEN 3 ELSE low

\* zoomTimeline without the render
zoomTimeline_NoRender(direction) ==
    /\ currentZoomLevel' = zoomClamp(currentZoomLevel + direction)
    /\ UNCHANGED <<timelineOffsetX, canvasWidth, innerWidth>>
    /\ UNCHANGED <<timelineNodePositions, dateLabels, hoverDetail>>

zoomTimeline(direction) ==
    /\ currentZoomLevel' = zoomClamp(currentZoomLevel + direction)
    /\ UNCHANGED <<timelineOffsetX, canvasWidth, innerWidth>>
    /\ Redraw

\* the bounds test of selectNode on a JavaScript value: index >= 0 and
\* index < timelineData.length (i + 0.5 passes exactly when i does)
IsValidIndex(index) ==
    /\ index.t \in {"number", "fraction"}
    /\ index.v >= 0
    /\ index.v < NumEvents

\* scrollDelta measured from the right edge of the canvas
scrollDelta_FromRightEdge(k) ==
    LET nodeX == ScreenX(k + 1, currentZoomLevel, timelineOffsetX)
        screenCenterX == NumOfInt(canvasWidth)
    IN  NumSub(screenCenterX, nodeX)

\* the scroll delta that selectNode computes for event k (0-based)
scrollDelta(k) ==
    LET nodeX == ScreenX(k + 1, currentZoomLevel, timelineOffsetX)
        screenCenterX == NumHalf(NumOfInt(canvasWidth))
    IN  NumSub(screenCenterX, nodeX)

\* selectNode keeping the selection on an invalid index
selectNode_KeepsSelection(index) ==
    IF IsValidIndex(index)
    THEN /\ selectedNodeIndex' = index.v
         /\ selectedNodeIndexHalves' = 0
         /\ scrollTimeline(scrollDelta(index.v))
    ELSE /\ UNCHANGED <<selectedNodeIndex, selectedNodeIndexHalves>>
         /\ UNCHANGED <<currentZoomLevel, timelineOffsetX, canvasWidth, innerWidth>>
         /\ Redraw

\* selectNode; timelineData[index] is undefined for a number that is not an
\* integer, and reading its date throws a TypeError after the assignment
selectNode(index) ==
    IF IsValidIndex(index)
    THEN /\ selectedNodeIndex' = index.v
         /\ selectedNodeIndexHalves' = (IF index.t = "fraction" THEN 1 ELSE 0)
         /\ IF index.t = "number"
            THEN scrollTimeline(scrollDelta(index.v))
            ELSE UNCHANGED <<currentZoomLevel, timelineOffsetX, canvasWidth, innerWidth,
                             timelineNodePositions, dateLabels, hoverDetail>>
    ELSE /\ selectedNodeIndex' = -1
         /\ selectedNodeIndexHalves' = 0
         /\ UNCHANGED <<currentZoomLevel, timelineOffsetX, canvasWidth, innerWidth>>
         /\ Redraw

resizeCanvas(w) ==
    /\ innerWidth' = w
    /\ canvasWidth' = w
    /\ UNCHANGED <<currentZoomLevel, timelineOffsetX, selectedNodeIndex, selectedNodeIndexHalves>>
    /\ Redraw

\* viewportCenterX of findClosestNodeToCenter: -timelineOffsetX + canvas.width / 2
viewportCenterX == NumAdd(NumNeg(timelineOffsetX), NumHalf(NumOfInt(canvasWidth)))

\* distance of findClosestNodeToCenter for event i (1-based)
centerDistance(i) ==
    NumAbs(NumSub(getDateX(timelineData[i].date, currentZoomLevel), viewportCenterX))

\* closestStart with closestIndex = 0
closestStart_Zero == [index |-> 0, infinite |-> TRUE, distance |-> NumZero]

\* closestIndex = -1 and minDistance = Infinity before the forEach
closestStart == [index |-> -1, infinite |-> TRUE, distance |-> NumZero]

\* closestStep with <= for <: a later event at the same distance wins
closestStep_LastWins(best, i) ==
    IF best.infinite \/ NumLe(centerDistance(i), best.distance)
    THEN [index |-> i - 1, infinite |-> FALSE, distance |-> centerDistance(i)]
    ELSE best

\* one round of the forEach: distance < minDistance, against Infinity or a Number
closestStep(best, i) ==
    IF best.infinite \/ NumLt(centerDistance(i), best.distance)
    THEN [index |-> i - 1, infinite |-> FALSE, distance |-> centerDistance(i)]
    ELSE best

RECURSIVE closestFold(_)
\* closestIndex and minDistance after the forEach has visited events 1..n
closestFold(n) == IF n = 0 THEN closestStart ELSE closestStep(closestFold(n - 1), n)

findClosestNodeToCenter == closestFold(NumEvents).index

(***************************************************************************)
(* Input bridge (interaction.js)                                           *)
(***************************************************************************)
\* the properties timeline.js assigns on window
WindowProperties ==
    {"initTimeline", "drawTimeline", "scrollTimeline", "zoomTimeline",
     "selectNode", "findClosestNodeToCenter", "timelineData", "timelineConfig",
     "timelineNodePositions"}

\* window[name]: the value when timeline.js exports it, undefined otherwise
WindowGet(name, value) == IF name \in WindowProperties THEN value ELSE Undefined

\* a + b on JavaScript values (a number, or undefined / NaN giving NaN)
JsAdd(a, b) ==
    IF a.t = "number" /\ b.t = "number" THEN JsNumber(a.v + b.v) ELSE NaN

\* a < n and a >= n against an integer n: false for undefined and NaN
JsLt(a, n) == a.t = "number" /\ a.v < n
JsGe(a, n) == a.t = "number" /\ a.v >= n

\* newIndex of navigateNodes
navigateIndex(direction) ==
    LET windowSelected == WindowGet("selectedNodeIndex",
                                    IF selectedNodeIndexHalves = 0
                                    THEN JsNumber(selectedNodeIndex)
                                    ELSE JsFraction(selectedNodeIndex))
    IN  IF windowSelected = JsNumber(-1)
        THEN IF direction = 1
             THEN (IF NumEvents > 0 THEN JsNumber(0) ELSE JsNumber(-1))
             ELSE (IF NumEvents > 0 THEN JsNumber(NumEvents - 1) ELSE JsNumber(-1))
        ELSE LET moved == JsAdd(windowSelected, JsNumber(direction))
                 low == IF JsLt(moved, 0) THEN JsNumber(0) ELSE moved
             IN  IF JsGe(low, NumEvents) THEN JsNumber(NumEvents - 1) ELSE low

navigateNodes(direction) == selectNode(navigateIndex(direction))

\* an event is handled before the pending timeout (if any) is due
DebounceNotDue == timers # {} => eventsSinceArm < MaxEventsPerDebounce

BeforeTimeout ==
    /\ DebounceNotDue
    /\ eventsSinceArm' = IF timers' = {} THEN 0 ELSE eventsSinceArm + 1

WithinMaxOffset(off) == NumLe(NumAbs(off), NumOfInt(MaxOffset))

handleKeyDown(key) ==
    LET scrollAmount == NumHalf(NumOfInt(innerWidth))
    IN  /\ CASE key = "ArrowUp" ->
                  /\ WithinMaxOffset(NumAdd(timelineOffsetX, scrollAmount))
                  /\ scrollTimeline(scrollAmount)
                  /\ UNCHANGED <<selectedNodeIndex, selectedNodeIndexHalves>>
             [] key = "ArrowDown" ->
                  /\ WithinMaxOffset(NumAdd(timelineOffsetX, NumNeg(scrollAmount)))
                  /\ scrollTimeline(NumNeg(scrollAmount))
                  /\ UNCHANGED <<selectedNodeIndex, selectedNodeIndexHalves>>
             [] key = "PageUp" ->
                  /\ zoomTimeline(1)
                  /\ UNCHANGED <<selectedNodeIndex, selectedNodeIndexHalves>>
             [] key = "PageDown" ->
                  /\ zoomTimeline(-1)
                  /\ UNCHANGED <<selectedNodeIndex, selectedNodeIndexHalves>>
             [] key = "ArrowLeft" -> navigateNodes(-1)
             [] key = "ArrowRight" -> navigateNodes(1)
        /\ UNCHANGED <<timelineData, timezone, pointerDevice, hoveredNodeId, hoverTimeout,
                       timers, nextTimer>>

\* the hit test of handleMouseMove on one table entry
Hit(node, mouseX, mouseY) ==
    /\ NumLe(node.x, NumOfInt(mouseX))
    /\ NumLe(NumOfInt(mouseX), NumAdd(node.x, NumOfInt(node.width)))
    /\ mouseY >= node.y
    /\ mouseY <= node.y + node.height

\* index in the table of the first entry hit, 0 when there is none
foundNode(mouseX, mouseY) ==
    LET hits == {i \in 1..Len(timelineNodePositions) :
                    Hit(timelineNodePositions[i], mouseX, mouseY)}
    IN  IF hits = {} THEN 0 ELSE CHOOSE i \in hits : \A j \in hits : i <= j

\* clearTimeout that cancels nothing
clearTimeout_NoCancel(pending, handle) == pending

clearTimeout(pending, handle) == {t \in pending : t.handle # handle}

setTimeout(pending, handle, node) == pending \cup {[handle |-> handle, node |-> node]}

handleMouseMove(mouseX, mouseY) ==
    LET found == foundNode(mouseX, mouseY)
    IN  IF found # 0 /\ timelineNodePositions[found].id # hoveredNodeId
        THEN /\ nextTimer <= MaxTimers
             /\ DebounceNotDue
             /\ hoveredNodeId' = timelineNodePositions[found].id
             /\ timers' = setTimeout(clearTimeout(timers, hoverTimeout), nextTimer,
                                     timelineNodePositions[found])
             /\ hoverTimeout' = nextTimer
             /\ nextTimer' = nextTimer + 1
             /\ eventsSinceArm' = 0
             /\ UNCHANGED <<timelineData, timezone, pointerDevice, innerWidth, canvasWidth,
                            currentZoomLevel, timelineOffsetX, selectedNodeIndex,
                            selectedNodeIndexHalves, timelineNodePositions, dateLabels, hoverDetail>>
        ELSE IF found = 0 /\ hoveredNodeId # Null
        THEN /\ hoveredNodeId' = Null
             /\ timers' = clearTimeout(timers, hoverTimeout)
             /\ UNCHANGED <<currentZoomLevel, timelineOffsetX, canvasWidth>>
             /\ Redraw
             /\ UNCHANGED <<timelineData, timezone, pointerDevice, innerWidth, selectedNodeIndex,
                            selectedNodeIndexHalves, hoverTimeout, nextTimer>>
             /\ BeforeTimeout
        ELSE UNCHANGED vars

\* drawHoveredNodeDetail: the box of nodeInfo is cleared and repainted with
\* the full title; it stays on the canvas until the next full render
drawHoveredNodeDetail(nodeInfo) == hoverDetail' = nodeInfo.id

(***************************************************************************)
(* Start-up (main.js) and the events of the host                           *)
(***************************************************************************)
Init ==
    /\ \E host \in Hosts :
          /\ timelineData = SortData(host.data)
          /\ timezone = host.tz
          /\ pointerDevice = host.pointer
    /\ innerWidth \in Widths
    /\ canvasWidth = innerWidth
    /\ currentZoomLevel = 1
    /\ timelineOffsetX = NumZero
    /\ selectedNodeIndex = -1
    /\ selectedNodeIndexHalves = 0
    /\ timelineNodePositions =
           processedNodePositions(NumEvents, currentZoomLevel, timelineOffsetX, canvasWidth)
    /\ dateLabels = drawnLabels(NumEvents, currentZoomLevel, timelineOffsetX)
    /\ hoverDetail = Null
    /\ hoveredNodeId = Null
    /\ hoverTimeout = NoTimer
    /\ timers = {}
    /\ nextTimer = 1
    /\ eventsSinceArm = 0

\* a keydown event
KeyDown == \E key \in Keys : handleKeyDown(key) /\ BeforeTimeout

\* a mousemove event on the canvas
MouseMove ==
    /\ pointerDevice
    /\ \E p \in PointerPositions : handleMouseMove(p[1], p[2])

\* the callback of a pending hover timeout runs
HoverTimeoutFires ==
    \E t \in timers :
        /\ timers' = timers \ {t}
        /\ drawHoveredNodeDetail(t.node)
        /\ eventsSinceArm' = 0
        /\ UNCHANGED <<timelineData, timezone, pointerDevice, innerWidth, canvasWidth,
                       currentZoomLevel, timelineOffsetX, selectedNodeIndex,
                       selectedNodeIndexHalves, timelineNodePositions, dateLabels, hoveredNodeId,
                       hoverTimeout, nextTimer>>

\* a resize event of the window
Resize ==
    \E w \in Widths :
        /\ resizeCanvas(w)
        /\ UNCHANGED <<timelineData, timezone, pointerDevice, hoveredNodeId, hoverTimeout,
                       timers, nextTimer>>
        /\ BeforeTimeout

\* a call of window.selectNode by the host page
SelectNodeCall ==
    \E i \in -1..MaxSelectArg :
        /\ selectNode(JsNumber(i))
        /\ UNCHANGED <<timelineData, timezone, pointerDevice, hoveredNodeId, hoverTimeout,
                       timers, nextTimer>>
        /\ BeforeTimeout

\* a call of window.findClosestNodeToCenter by the host page: a query
FindClosestCall ==
    /\ findClosestNodeToCenter \in -1..(NumEvents - 1)
    /\ UNCHANGED vars

Next ==
    \/ KeyDown
    \/ MouseMove
    \/ HoverTimeoutFires
    \/ Resize
    \/ SelectNodeCall
    \/ FindClosestCall

Spec == Init /\ [][Next]_vars

\* a call of window.selectNode by the host page with a value that is not an
\* integer: undefined, NaN or a number with a fractional part
SelectNodeCallNonInteger ==
    \E index \in {Undefined, NaN} \cup {JsFraction(i) : i \in -1..MaxSelectArg} :
        /\ selectNode(index)
        /\ UNCHANGED <<timelineData, timezone, pointerDevice, hoveredNodeId, hoverTimeout,
                       timers, nextTimer>>
        /\ BeforeTimeout

NextAnyArgument ==
    \/ Next
    \/ SelectNodeCallNonInteger

\* the program with direct selectNode calls on every kind of number
SpecAnyArgument == Init /\ [][NextAnyArgument]_vars

(***************************************************************************)
(* Properties.  Helpers: exact (unrounded) distances of Numbers.            *)
(***************************************************************************)
\* |x - y| as a real number, in units of 2^-55 px
ExactDistance(x, y) == ExactSum(x, NumNeg(y)).m

\* 2^-30 px
RoundingTolerance == <<0, 2^10, 0, 0, 0>>

Near(x, y) == MagLt(ExactDistance(x, y), RoundingTolerance)

\* x is a multiple of 0.5
IsHalfInteger(x) == x.m[1] = 0 /\ x.m[2] = 0 /\ x.m[3] = 0 /\ x.m[4] % 2^9 = 0

Center(cw) == NumHalf(NumOfInt(cw))

EventIndexes == 1..NumEvents

\* the screen X of event i (1-based) before and after a step
ScreenXNow(i) == ScreenX(i, currentZoomLevel, timelineOffsetX)
ScreenXNext(i) == ScreenX(i, currentZoomLevel', timelineOffsetX')

\* C1 (as claimed): with nothing selected and a non-empty collection,
\* ArrowRight leaves selectedIndex = 0 and ArrowLeft leaves it n-1.
C1_ArrowSelectsFirstOrLast ==
    [][(selectedNodeIndex = -1 /\ NumEvents > 0) =>
          /\ handleKeyDown("ArrowRight") => selectedNodeIndex' = 0
          /\ handleKeyDown("ArrowLeft") => selectedNodeIndex' = NumEvents - 1]_vars

\* C2 (as claimed): with event k selected, ArrowRight selects min(k+1, n-1)
\* and ArrowLeft selects max(k-1, 0); an arrow press never clears the selection.
C2_ArrowStepsAndClamps ==
    [][selectedNodeIndex >= 0 =>
          /\ handleKeyDown("ArrowRight") =>
                selectedNodeIndex' = (IF selectedNodeIndex + 1 > NumEvents - 1
                                      THEN NumEvents - 1 ELSE selectedNodeIndex + 1)
          /\ handleKeyDown("ArrowLeft") =>
                selectedNodeIndex' = (IF selectedNodeIndex - 1 < 0
                                      THEN 0 ELSE selectedNodeIndex - 1)]_vars

\* C3 (as claimed): after selectNode(k) with a valid k, selectedIndex = k, the
\* tier is unchanged and the screen X of event k equals canvasWidth/2 exactly.
C3_SelectRecentersExactly ==
    [][\A k \in 0..(NumEvents - 1) :
          selectNode(JsNumber(k)) =>
             /\ selectedNodeIndex' = k
             /\ currentZoomLevel' = currentZoomLevel
             /\ ScreenXNext(k + 1) = Center(canvasWidth')]_vars

\* C3 (amended): after selectNode(k) with a valid k, selectedIndex = k, the
\* tier is unchanged and the screen X of event k equals canvasWidth/2 up to
\* the rounding of the Number arithmetic: it is within 2^-30 px of it, and
\* equal to it when the tier is Month and the prior offset a multiple of 0.5.
C3_SelectRecentersUpToRounding ==
    [][\A k \in 0..(NumEvents - 1) :
          selectNode(JsNumber(k)) =>
             /\ selectedNodeIndex' = k
             /\ currentZoomLevel' = currentZoomLevel
             /\ Near(ScreenXNext(k + 1), Center(canvasWidth'))
             /\ (currentZoomLevel = 1 /\ IsHalfInteger(timelineOffsetX)) =>
                   ScreenXNext(k + 1) = Center(canvasWidth')]_vars

\* an event other than the first is selected at Year tier and sits within
\* rounding distance of the canvas midpoint, but not on it
C3_Witness ==
    /\ selectedNodeIndex >= 1
    /\ currentZoomLevel = 2
    /\ Near(ScreenXNow(selectedNodeIndex + 1), Center(canvasWidth))
    /\ ScreenXNow(selectedNodeIndex + 1) # Center(canvasWidth)

\* C4: the tier is always Month, Year or Decade; PageUp / PageDown move it by
\* exactly one, or leave it unchanged when the step would leave the range;
\* zooming changes neither the scroll offset nor the selection.
C4_ZoomClamped ==
    /\ [](currentZoomLevel \in 1..3)
    /\ [][\A direction \in {1, -1} :
             handleKeyDown(IF direction = 1 THEN "PageUp" ELSE "PageDown") =>
                /\ currentZoomLevel + direction \in 1..3 =>
                      currentZoomLevel' = currentZoomLevel + direction
                /\ currentZoomLevel + direction \notin 1..3 =>
                      currentZoomLevel' = currentZoomLevel
                /\ timelineOffsetX' = timelineOffsetX
                /\ selectedNodeIndex' = selectedNodeIndex]_vars

\* Decade tier reached with a selection and a scroll offset in place
C4_Witness ==
    /\ currentZoomLevel = 3
    /\ selectedNodeIndex >= 0
    /\ timelineOffsetX # NumZero

ScrollDeltaOfKey(key) ==
    IF key = "ArrowUp" THEN Center(innerWidth) ELSE NumNeg(Center(innerWidth))

VisibleNow(i) == IsVisible(ScreenXNow(i), canvasWidth)
VisibleNext(i) == IsVisible(ScreenXNext(i), canvasWidth')

\* C5 (as claimed): a scroll by d sets the offset to old + d, leaves tier,
\* selection and every virtual X unchanged, and shifts the screen X of every
\* event emitted in both frames by exactly d; a single event at tier Month
\* and offset 0 has screen X 0.
C5_ScrollTranslatesExactly ==
    /\ []((NumEvents = 1 /\ currentZoomLevel = 1 /\ timelineOffsetX = NumZero) =>
             ScreenXNow(1) = NumZero)
    /\ [][\A key \in {"ArrowUp", "ArrowDown"} :
             handleKeyDown(key) =>
                /\ timelineOffsetX' = NumAdd(timelineOffsetX, ScrollDeltaOfKey(key))
                /\ currentZoomLevel' = currentZoomLevel
                /\ selectedNodeIndex' = selectedNodeIndex
                /\ \A i \in EventIndexes :
                      /\ getDateX(timelineData[i].date, currentZoomLevel')
                            = getDateX(timelineData[i].date, currentZoomLevel)
                      /\ (VisibleNow(i) /\ VisibleNext(i)) =>
                            ScreenXNext(i) = ExactSum(ScreenXNow(i), ScrollDeltaOfKey(key))]_vars

\* C5 (amended): as claimed, except that the shift of the screen X equals d up
\* to the rounding of the Number arithmetic: it is within 2^-30 px of d, and
\* equal to d when the tier is Month and the prior offset a multiple of 0.5.
C5_ScrollTranslatesUpToRounding ==
    /\ []((NumEvents = 1 /\ currentZoomLevel = 1 /\ timelineOffsetX = NumZero) =>
             ScreenXNow(1) = NumZero)
    /\ [][\A key \in {"ArrowUp", "ArrowDown"} :
             handleKeyDown(key) =>
                /\ timelineOffsetX' = NumAdd(timelineOffsetX, ScrollDeltaOfKey(key))
                /\ currentZoomLevel' = currentZoomLevel
                /\ selectedNodeIndex' = selectedNodeIndex
                /\ \A i \in EventIndexes :
                      /\ getDateX(timelineData[i].date, currentZoomLevel')
                            = getDateX(timelineData[i].date, currentZoomLevel)
                      /\ (VisibleNow(i) /\ VisibleNext(i)) =>
                            /\ Near(ScreenXNext(i),
                                    ExactSum(ScreenXNow(i), ScrollDeltaOfKey(key)))
                            /\ (currentZoomLevel = 1 /\ IsHalfInteger(timelineOffsetX)) =>
                                  ScreenXNext(i) = ExactSum(ScreenXNow(i), ScrollDeltaOfKey(key))]_vars

\* scrolled at Year tier: the offset is off zero and an event other than the
\* first is on the canvas at a screen X that is not a multiple of 0.5
C5_Witness ==
    /\ currentZoomLevel = 2
    /\ timelineOffsetX # NumZero
    /\ IsHalfInteger(timelineOffsetX)
    /\ \E i \in EventIndexes : i > 1 /\ VisibleNow(i) /\ ~IsHalfInteger(ScreenXNow(i))

\* C6: at each tier, an event with an earlier date has a strictly smaller
\* virtual X than an event with a later date.
C6_DateXMonotonic ==
    \A i, j \in EventIndexes :
        timelineData[i].date < timelineData[j].date =>
            \A zoom \in 1..3 :
                NumLt(getDateX(timelineData[i].date, zoom),
                      getDateX(timelineData[j].date, zoom))

\* three events, two of them on one day and one later, seen at Decade tier
C6_Witness ==
    /\ NumEvents = 3
    /\ timelineData[1].date = timelineData[2].date
    /\ timelineData[2].date < timelineData[3].date
    /\ currentZoomLevel = 3

\* the box width of event i under the current tier
ExpectedWidth(i) ==
    (Len(truncateText(timelineData[i].title, getNodeCharLimit(currentZoomLevel))) + 4) * 10

\* C7: in every state, the position table is the complete layout of the
\* current tier, offset and canvas width: one entry for each event that passes
\* the visibility test and none for the others, in ascending index order, each
\* with the id and index of its event, the width of its truncated title under
\* the current tier, and x = screen X - width / 2.
C7_PositionTableIsLatestRender ==
    LET table == timelineNodePositions
        entries == 1..Len(table)
    IN  /\ \A i \in EventIndexes :
              Cardinality({j \in entries : table[j].index = i - 1})
                  = (IF VisibleNow(i) THEN 1 ELSE 0)
        /\ \A j \in entries :
              /\ table[j].index + 1 \in EventIndexes
              /\ j + 1 \in entries => table[j].index < table[j + 1].index
              /\ table[j].id = timelineData[table[j].index + 1].id
              /\ table[j].width = ExpectedWidth(table[j].index + 1)
              /\ table[j].x = NumSub(ScreenXNow(table[j].index + 1),
                                     NumHalf(NumOfInt(table[j].width)))

\* scrolled and zoomed out on the narrow canvas, with one event culled
C7_Witness ==
    /\ currentZoomLevel = 2
    /\ canvasWidth = 400
    /\ timelineOffsetX # NumZero
    /\ Len(timelineNodePositions) >= 1
    /\ Len(timelineNodePositions) < NumEvents

\* C8: at most one hover timeout is pending, it is the one hoverTimeout names
\* and it is for the node hoveredNodeId names; a pointer move that changes the
\* hit target cancels every timeout that was pending; and a detail redraw is
\* made for the node that hoveredNodeId names.
C8_HoverDebounceCancelled ==
    /\ [](/\ Cardinality(timers) <= 1
          /\ \A t \in timers : t.handle = hoverTimeout /\ t.node.id = hoveredNodeId)
    /\ [][/\ hoveredNodeId' # hoveredNodeId => timers \cap timers' = {}
          /\ \A t \in timers :
                (timers' = timers \ {t} /\ drawHoveredNodeDetail(t.node)) =>
                    t.node.id = hoveredNodeId]_vars

\* a second timeout is pending, set for another node than the one redrawn in
\* detail by the first
C8_Witness ==
    /\ \E t \in timers : t.handle = 2 /\ hoverDetail # Null /\ t.node.id # hoverDetail
    /\ hoveredNodeId # Null

\* the label bucket of event i: its year, and its month at Month tier
LabelBucket(i) ==
    IF currentZoomLevel = 1
    THEN <<GetFullYear(timelineData[i].date, timezone),
           GetMonth(timelineData[i].date, timezone)>>
    ELSE <<GetFullYear(timelineData[i].date, timezone)>>

\* C9: at Month and Year tier, the labels of a render are one per label
\* bucket of the collection: for every event exactly one label carries the
\* text of its bucket, whether the event is on the canvas or not.
C9_OneLabelPerBucket ==
    currentZoomLevel \in {1, 2} =>
        /\ Len(dateLabels) = Cardinality({LabelBucket(i) : i \in EventIndexes})
        /\ \A i \in EventIndexes :
              Cardinality({j \in 1..Len(dateLabels) :
                              dateLabels[j].text
                                  = DateLabel(i, currentZoomLevel, timelineOffsetX).text}) = 1

\* Year tier, two events in one year, fewer labels than events, and an event
\* that is not on the canvas
C9_Witness ==
    /\ currentZoomLevel = 2
    /\ \E i, j \in EventIndexes : i # j /\ LabelBucket(i) = LabelBucket(j)
    /\ Len(dateLabels) = 2
    /\ Len(timelineNodePositions) < NumEvents

\* C10: selectNode(i) with i < 0 or i >= n clears the selection, renders, and
\* leaves the scroll offset and the tier unchanged.
C10_OutOfBoundsSelectClears ==
    [][\A i \in -1..MaxSelectArg :
          ((i < 0 \/ i >= NumEvents) /\ selectNode(JsNumber(i))) =>
              /\ selectedNodeIndex' = -1
              /\ timelineOffsetX' = timelineOffsetX
              /\ currentZoomLevel' = currentZoomLevel
              /\ hoverDetail' = Null
              /\ timelineNodePositions' =
                     processedNodePositions(NumEvents, currentZoomLevel',
                                            timelineOffsetX', canvasWidth')]_vars

\* nothing selected, yet the viewport is still centered on the second
\* event: it was selected and the selection then cleared
C10_Witness ==
    /\ selectedNodeIndex = -1
    /\ NumEvents >= 2
    /\ timelineData[1].date < timelineData[2].date
    /\ ScreenXNow(2) = Center(canvasWidth)

\* C11: on a non-empty collection findClosestNodeToCenter returns the index of
\* an event whose virtual X is at the least distance from the viewport center
\* -timelineOffsetX + canvasWidth/2, the smallest such index when several
\* events are at that distance; it returns -1 exactly when the collection is
\* empty; and a call changes no viewport state.
C11_ClosestIsFirstNearest ==
    /\ [](LET r == findClosestNodeToCenter
          IN  /\ (r = -1) <=> (NumEvents = 0)
              /\ r # -1 =>
                    /\ r + 1 \in EventIndexes
                    /\ \A j \in EventIndexes :
                          NumLe(centerDistance(r + 1), centerDistance(j))
                    /\ \A j \in 1..r :
                          NumLt(centerDistance(r + 1), centerDistance(j)))
    /\ [][FindClosestCall =>
             UNCHANGED <<timelineOffsetX, currentZoomLevel, canvasWidth,
                         selectedNodeIndex, timelineNodePositions>>]_vars

\* two events share the least distance and the first of them is returned,
\* while a third event lies farther from the center
C11_Witness ==
    /\ findClosestNodeToCenter = 0
    /\ \E j \in EventIndexes : j > 1 /\ centerDistance(j) = centerDistance(1)
    /\ \E j \in EventIndexes : NumLt(centerDistance(1), centerDistance(j))
    /\ timelineOffsetX # NumZero

\* the character budget of a tier: Month 15, Year 10, Decade 3
Budget(zoom) == IF zoom = 1 THEN 15 ELSE IF zoom = 2 THEN 10 ELSE 3

\* the length of the text displayed for a title at a tier
DisplayedLength(title, zoom) ==
    IF Len(title) <= Budget(zoom) THEN Len(title) ELSE Budget(zoom) + 3

\* C12: at every tier, with budget b, the displayed text of every title is the
\* title itself when it is at most b long, and otherwise its first b
\* characters followed by "..."; the box width of every entry of the position
\* table is (length of the displayed text + 4) * 10.
C12_TruncationAndWidth ==
    /\ \A i \in EventIndexes : \A zoom \in 1..3 :
          LET title == timelineData[i].title
              b == Budget(zoom)
              shown == truncateText(title, getNodeCharLimit(zoom))
          IN  /\ Len(title) <= b => shown = title
              /\ Len(title) > b =>
                    /\ Len(shown) = b + 3
                    /\ \A k \in 1..b : shown[k] = title[k]
                    /\ \A k \in (b + 1)..(b + 3) : shown[k] = "."
    /\ \A j \in 1..Len(timelineNodePositions) :
          timelineNodePositions[j].width =
              (DisplayedLength(timelineNodePositions[j].originalTitle, currentZoomLevel) + 4) * 10

\* Decade tier with two boxes in the table: one whose title is exactly as
\* long as the budget and is shown whole, one whose title is cut
C12_Witness ==
    /\ currentZoomLevel = 3
    /\ \E j, k \in 1..Len(timelineNodePositions) :
          /\ Len(timelineNodePositions[j].originalTitle) = 3
          /\ timelineNodePositions[j].width = 70
          /\ Len(timelineNodePositions[k].originalTitle) > 3
          /\ timelineNodePositions[k].width = 100

\* C13: with an empty collection, after every sequence of scrolls, zooms,
\* arrow-key navigations, pointer moves, resizes and selectNode calls, the
\* position table is empty, there are no date labels, no detail box is
\* painted, findClosestNodeToCenter returns -1 and nothing is selected; every
\* step leaves the collection empty and no timeout is ever armed.
C13_EmptyCollectionIsInert ==
    /\ [](NumEvents = 0 =>
            /\ timelineNodePositions = <<>>
            /\ dateLabels = <<>>
            /\ hoverDetail = Null
            /\ hoveredNodeId = Null
            /\ timers = {}
            /\ findClosestNodeToCenter = -1
            /\ selectedNodeIndex = -1)
    /\ [][NumEvents = 0 => timelineData' = <<>>]_vars

\* the empty collection after zooming out twice and scrolling
C13_Witness ==
    /\ NumEvents = 0
    /\ currentZoomLevel = 3
    /\ timelineOffsetX # NumZero
    /\ pointerDevice

\* C14 (as claimed): PageUp moves the tier one step toward Month (1) and
\* leaves it at Month; PageDown moves it one step toward Decade (3) and
\* leaves it at Decade.
C14_PageUpZoomsTowardMonth ==
    [][/\ handleKeyDown("PageUp") =>
             currentZoomLevel' = (IF currentZoomLevel = 1 THEN 1 ELSE currentZoomLevel - 1)
       /\ handleKeyDown("PageDown") =>
             currentZoomLevel' = (IF currentZoomLevel = 3 THEN 3 ELSE currentZoomLevel + 1)]_vars

\* event i (1-based) has an entry in the position table
HasEntry(i) == \E j \in 1..Len(timelineNodePositions) : timelineNodePositions[j].index = i - 1

NumEq(x, y) == NumLe(x, y) /\ NumLe(y, x)

\* C15 (as claimed): the position table has an entry for an event exactly
\* when its screen X lies in the closed interval [-200, canvasWidth + 200].
C15_CullingClosedInterval ==
    \A i \in EventIndexes :
        HasEntry(i) <=> /\ NumLe(NumOfInt(-200), ScreenXNow(i))
                        /\ NumLe(ScreenXNow(i), NumOfInt(canvasWidth + 200))

\* C15 (amended): the position table has an entry for an event exactly when
\* its screen X lies strictly between -200 and canvasWidth + 200; an event
\* at either boundary value has no entry.
C15_CullingOpenInterval ==
    \A i \in EventIndexes :
        HasEntry(i) <=> /\ NumLt(NumOfInt(-200), ScreenXNow(i))
                        /\ NumLt(ScreenXNow(i), NumOfInt(canvasWidth + 200))

\* an event exactly on a boundary, without an entry, next to an event inside
C15_Witness ==
    /\ \E i \in EventIndexes :
          /\ \/ NumEq(ScreenXNow(i), NumOfInt(-200))
             \/ NumEq(ScreenXNow(i), NumOfInt(canvasWidth + 200))
          /\ ~HasEntry(i)
    /\ \E i \in EventIndexes : HasEntry(i)

\* the decade of event i: its year rounded down to a multiple of 10
DecadeOf(i) ==
    LET year == GetFullYear(timelineData[i].date, timezone)
    IN  year - (year % 10)

\* C16 (as claimed): at Decade tier two events have the same bucket key
\* exactly when their years fall in the same decade, and a render emits
\* one date label per decade that has an event.
C16_OneLabelPerDecade ==
    currentZoomLevel = 3 =>
        /\ \A i, j \in EventIndexes :
              (DateLabel(i, 3, timelineOffsetX).key = DateLabel(j, 3, timelineOffsetX).key)
                  <=> (DecadeOf(i) = DecadeOf(j))
        /\ Len(dateLabels) = Cardinality({DecadeOf(i) : i \in EventIndexes})

\* a zoom key or a resize is handled: the steps that are neither a scroll
\* nor a selection
ZoomOrResize ==
    \/ handleKeyDown("PageUp")
    \/ handleKeyDown("PageDown")
    \/ \E w \in Widths : resizeCanvas(w)

\* C17 (as claimed): a selected event that is at canvasWidth/2 is still at
\* canvasWidth/2 after a zoom or a resize.  (Selecting the event again in
\* such a state changes nothing, so the state is also one reached with no
\* scroll since the selection: the claim covers every such step.)
C17_SelectionStaysCentered ==
    [][(/\ selectedNodeIndex >= 0
        /\ ScreenXNow(selectedNodeIndex + 1) = Center(canvasWidth)
        /\ ZoomOrResize)
       => ScreenXNext(selectedNodeIndex' + 1) = Center(canvasWidth')]_vars

\* the callback of timeout t runs in this step
Fires(t) ==
    /\ t \in timers
    /\ timers' = timers \ {t}
    /\ drawHoveredNodeDetail(t.node)
    /\ UNCHANGED <<timelineNodePositions, hoveredNodeId, hoverTimeout>>

\* C18 (as claimed): when the hover timeout fires for a node, the rectangle
\* (x, y, width) it repaints is that of the node's entry in the current
\* position table.
C18_DetailDrawnAtCurrentEntry ==
    [][\A t \in timers :
          Fires(t) =>
             \E j \in 1..Len(timelineNodePositions) :
                /\ timelineNodePositions[j].id = t.node.id
                /\ timelineNodePositions[j].x = t.node.x
                /\ timelineNodePositions[j].y = t.node.y
                /\ timelineNodePositions[j].width = t.node.width]_vars

\* C19 (as claimed): at Decade tier the anchor X of every event's decade
\* label is at most the screen X of the event.
C19_DecadeAnchorNotRightOfEvent ==
    currentZoomLevel = 3 =>
        \A i \in EventIndexes :
            NumLe(DateLabel(i, 3, timelineOffsetX).x, ScreenXNow(i))

\* C20 (as claimed): under every sequence of key presses, pointer moves,
\* resizes and selectNode calls with arbitrary arguments, selectedNodeIndex is
\* -1 or an integer in 0..n-1, and the collection is never reordered.
C20_SelectionIndexValid ==
    /\ [](/\ selectedNodeIndexHalves = 0
          /\ selectedNodeIndex \in -1..(NumEvents - 1))
    /\ [][timelineData' = timelineData]_vars

=============================================================================
